---- MODULE Spec2Model ----
(***************************************************************************)
(* daily_report.py: the MCP tool invoker (post_mcp, unwrap_content) and    *)
(* the daily report pipeline (main), as a state machine.                   *)
(*                                                                         *)
(* main is a strict sequence of awaits.  Each action below is one stretch  *)
(* of code between two suspension points: the await inside post_mcp        *)
(* (sse_client connect, session.initialize, session.call_tool) or the      *)
(* blocking call to the summarization client.                              *)
(***************************************************************************)
EXTENDS Integers, Sequences, FiniteSets, TLC

\* ---------------------------------------------------------------- bounds
\* Largest size of one tool response: the number of values it carries, a
\* content item counting for one, or for its elements when it is a JSON
\* array of several.
MaxSize == 2

\* ------------------------------------------------------- python values
\* Plain Python data as main sees it.  k is the Python type; s is the text
\* of a str, or the value under the key 'sha' of a dict (NoSha: the dict
\* has no such key); items are the elements of a list.
NoSha == "<no sha>"
Shas == {"a", "b"}
Str(s) == [k |-> "str", s |-> s, items |-> <<>>]
Dict(sha) == [k |-> "dict", s |-> sha, items |-> <<>>]
List(xs) == [k |-> "list", s |-> "", items |-> xs]
JSONDecodeError == [k |-> "error", s |-> "JSONDecodeError", items |-> <<>>]
AttributeError == [k |-> "error", s |-> "AttributeError", items |-> <<>>]

SeqsUpTo(S, n) == UNION {[1..m -> S] : m \in 0..n}

\* What a JSON text of a response decodes to: a commit object, a string, or
\* an array (of at most n elements) of those.
JsonAtoms == {Dict(sha) : sha \in Shas} \cup {Str("d")}
JsonArrays(n) == {List(xs) : xs \in SeqsUpTo(JsonAtoms, n)}
JsonValues(n) == JsonAtoms \cup JsonArrays(n)

\* ------------------------------------------------------- content items
\* A text: either the JSON encoding of a value (json = TRUE, of = the value)
\* or characters that are not JSON (json = FALSE, chars = the characters).
JsonText(v) == [json |-> TRUE, chars |-> "", of |-> v]
PlainText(c) == [json |-> FALSE, chars |-> c, of |-> Str("")]
PlainChars == {"", "d"}

\* The content items: types.TextContent (a text), types.EmbeddedResource (a
\* body), and any other content type (an image, say), of which only the
\* field mapping is used.
JsonTextContent(v) == [type |-> "text", text |-> JsonText(v), body |-> Str("")]
PlainTextContent(c) == [type |-> "text", text |-> PlainText(c), body |-> Str("")]
EmbeddedResource(b) == [type |-> "resource", text |-> PlainText(""), body |-> b]

\* An EmbeddedResource as the protocol defines it (type, resource,
\* annotations): line 64 reads an attribute `body`, which the item has only
\* when the response carried such a field; without it the read raises.
BareEmbeddedResource ==
    [type |-> "resource", text |-> PlainText(""), body |-> AttributeError]
OtherContent == [type |-> "image", text |-> PlainText(""), body |-> Str("")]

\* The content items that carry arrays of at most n elements.
ContentItems(n) ==
    {JsonTextContent(v) : v \in JsonValues(n)}
        \cup {PlainTextContent(c) : c \in PlainChars}
        \cup {EmbeddedResource(b) : b \in JsonValues(n)}
        \cup {BareEmbeddedResource}
        \cup {OtherContent}

\* The size of a content item and of a response.
ItemSize(item) ==
    LET v == IF item.type = "text" THEN item.text.of ELSE item.body
    IN  IF Len(v.items) > 1 THEN Len(v.items) ELSE 1

Size(p) ==
    LET upto[i \in 0..Len(p)] ==
            IF i = 0 THEN 0 ELSE ItemSize(p[i]) + upto[i - 1]
    IN  upto[Len(p)]

\* result.content of a CallToolResult: every response of size <= MaxSize.
Payloads ==
    UNION {{p \in [1..m -> ContentItems(MaxSize - m + 1)] :
                Size(p) <= MaxSize} : m \in 0..MaxSize}

\* ------------------------------------------------------ unwrap_content
\* json.loads(text): the decoded value, or JSONDecodeError.
JsonLoads(t) == IF t.json THEN t.of ELSE JSONDecodeError

\* One iteration of the loop of unwrap_content (lines 56-66).
UnwrapItem(item) ==
    IF item.type = "text"
    THEN LET parsed == JsonLoads(item.text)
         IN  IF parsed = JSONDecodeError THEN Str(item.text.chars) ELSE parsed
    ELSE IF item.type = "resource"
         THEN item.body
         ELSE Dict(NoSha)

\* Whether the loop raises: line 64 on an item without `body`.
Raises(content) ==
    \E i \in 1..Len(content) : UnwrapItem(content[i]) = AttributeError

\* What unwrap_content returns when its loop raises nothing.
unwrap_content(content) ==
    [i \in 1..Len(content) |-> UnwrapItem(content[i])]

\* FlattenOne with `len(content_items) >= 1` for `== 1`.
FlattenFirst(unwrapped) ==
    IF Len(unwrapped) >= 1 /\ unwrapped[1].k = "list"
    THEN unwrapped[1].items
    ELSE unwrapped

\* Lines 76-78 of post_mcp: a single list-valued item is returned itself.
FlattenOne(unwrapped) ==
    IF Len(unwrapped) = 1 /\ unwrapped[1].k = "list"
    THEN unwrapped[1].items
    ELSE unwrapped

\* Lines 75-78 of post_mcp: what the call returns for result.content.
PostMcpResult(content) == FlattenOne(unwrap_content(content))

\* Every value post_mcp can return.
ToolResults ==
    {PostMcpResult(content) : content \in {p \in Payloads : ~Raises(p)}}

\* The responses post_mcp raises on instead.
RaisingPayloads == {p \in Payloads : Raises(p)}

\* --------------------------------------------------------- configuration
\* Lines 21-30: the settings read from the environment.
RequiredVars ==
    {"GITHUB_MCP_URL", "SLACK_MCP_URL", "NOTION_MCP_URL", "GH_OWNER",
     "GH_REPO", "SLACK_CHANNEL_ID", "NOTION_DB_ID"}
Settings == RequiredVars \cup {"OPENAI_API_KEY"}

\* ------------------------------------------------------------- the state
VARIABLES
    env,            \* the settings that are set to a non-empty value
    pc,             \* where the process is
    phase,          \* where the running post_mcp call is ("none": no call)
    err,            \* why the process aborted ("none": it has not)
    missing,        \* the settings named by the SystemExit message
    sessions,       \* every session opened so far, oldest first
    calls,          \* every post_mcp call made so far, oldest first
    commits,        \* main's local, while a later line still reads it
    overall_diff,   \* main's local
    branch_diff,    \* main's local
    llm_calls,      \* calls of client.chat.completions.create so far
    summary,        \* main's local
    raw,            \* unwrap_content's argument (normalizer runs only)
    content_items,  \* post_mcp's local (normalizer runs only)
    returned,       \* post_mcp's return value (normalizer runs only)
    npc             \* where the normalizer run is

vars ==
    <<env, pc, phase, err, missing, sessions, calls, commits, overall_diff,
      branch_diff, llm_calls, summary, raw, content_items, returned, npc>>

pipeline == <<env, pc, phase, err, missing, sessions, calls, commits,
              overall_diff, branch_diff, llm_calls, summary>>
normalizer == <<raw, content_items, returned, npc>>
locals == <<commits, overall_diff, branch_diff, summary>>

\* ------------------------------------------------------------ post_mcp
\* The endpoint each step of main talks to (the url argument).
UrlOf(step) ==
    CASE step = "post_slack" -> "SLACK_MCP_URL"
      [] step = "create_page" -> "NOTION_MCP_URL"
      [] OTHER -> "GITHUB_MCP_URL"

\* The tool each step of main calls (the tool argument).
ToolOf(step) ==
    CASE step \in {"list_today", "list_prev", "list_branch"} -> "list_commits"
      [] step \in {"compare_main", "compare_branch"} -> "compare_commits"
      [] step = "post_slack" -> "slack_post_message"
      [] OTHER -> "create-page"

\* A call of post_mcp as the log keeps it: its arguments, how it ended, and,
\* of the list a list_commits call returned, what main reads: its length and
\* the sha of its first and of its last element.
Call(step, base, head) ==
    [step |-> step, tool |-> ToolOf(step), url |-> UrlOf(step),
     base |-> base, head |-> head, outcome |-> "pending",
     count |-> -1, newest |-> NoSha, oldest |-> NoSha]

\* e['sha'] for an element e of a returned list; NoSha when it raises
\* (KeyError on a dict without the key, TypeError on a str or a list).
ShaOf(e) == IF e.k = "dict" THEN e.s ELSE NoSha

\* The log once the running call has ended with `outcome`.
Ended(cs, outcome) == [cs EXCEPT ![Len(cs)].outcome = outcome]

\* The log once the running list_commits call has returned r.
Returned(cs, r) ==
    [cs EXCEPT ![Len(cs)].outcome = "ok",
               ![Len(cs)].count = Len(r),
               ![Len(cs)].newest = IF r = <<>> THEN NoSha ELSE ShaOf(r[1]),
               ![Len(cs)].oldest = IF r = <<>> THEN NoSha ELSE ShaOf(r[Len(r)])]

\* EnterSession with the session of the previous call kept and used again.
ReuseSession(ss, url) ==
    IF ss = <<>>
    THEN <<[url |-> url, state |-> "open", initialized |-> FALSE,
            requests |-> 0]>>
    ELSE [ss EXCEPT ![Len(ss)].state = "open"]

\* Line 71, entering sse_client (and line 72, ClientSession): a session to
\* url is open.
EnterSession(ss, url) ==
    Append(ss, [url |-> url, state |-> "open", initialized |-> FALSE,
                requests |-> 0])

\* ExitSession without the release.
LeakSession(ss) == ss

\* Leaving the two `async with` blocks of lines 71-72, by return or by an
\* exception: the session of the running call is released.
ExitSession(ss) == [ss EXCEPT ![Len(ss)].state = "closed"]

\* Lines 161-166: the completions the summarization client can return, and
\* what .strip() makes of each.
Completions == {"s", " s "}
Strip(c) == IF c = " s " THEN "s" ELSE c

\* ---------------------------------------------------------------- Init
NormalizerIdle ==
    /\ raw = <<>>
    /\ content_items = <<>>
    /\ returned = <<>>
    /\ npc = "off"

Init ==
    /\ env \in SUBSET Settings
    /\ pc = "load"
    /\ phase = "none"
    /\ err = "none"
    /\ missing = {}
    /\ sessions = <<>>
    /\ calls = <<>>
    /\ commits = <<>>
    /\ overall_diff = Str("")
    /\ branch_diff = Str("")
    /\ llm_calls = 0
    /\ summary = ""
    /\ NormalizerIdle

\* -------------------------------------------------------- module level
\* LoadConfig without lines 45-47: only the key of line 31 is looked at.
LoadConfigKeyOnly ==
    /\ pc = "load"
    /\ IF "OPENAI_API_KEY" \notin env
       THEN /\ pc' = "aborted"
            /\ err' = "config"
            /\ missing' = {"OPENAI_API_KEY"}
       ELSE /\ pc' = "main"
            /\ UNCHANGED <<err, missing>>
    /\ UNCHANGED <<env, phase, sessions, calls, locals, llm_calls, normalizer>>

\* LoadConfig with line 47 joining `required` for `missing`.
LoadConfigNamesAll ==
    /\ pc = "load"
    /\ IF "OPENAI_API_KEY" \notin env
       THEN /\ pc' = "aborted"
            /\ err' = "config"
            /\ missing' = {"OPENAI_API_KEY"}
       ELSE IF RequiredVars \ env # {}
            THEN /\ pc' = "aborted"
                 /\ err' = "config"
                 /\ missing' = RequiredVars
            ELSE /\ pc' = "main"
                 /\ UNCHANGED <<err, missing>>
    /\ UNCHANGED <<env, phase, sessions, calls, locals, llm_calls, normalizer>>

\* Lines 16-47: read the settings; SystemExit when one is missing.
LoadConfig ==
    /\ pc = "load"
    /\ IF "OPENAI_API_KEY" \notin env
       THEN /\ pc' = "aborted"
            /\ err' = "config"
            /\ missing' = {"OPENAI_API_KEY"}
       ELSE IF RequiredVars \ env # {}
            THEN /\ pc' = "aborted"
                 /\ err' = "config"
                 /\ missing' = RequiredVars \ env
            ELSE /\ pc' = "main"
                 /\ UNCHANGED <<err, missing>>
    /\ UNCHANGED <<env, phase, sessions, calls, locals, llm_calls, normalizer>>

\* main calls post_mcp for `step` once the running call (if any) has left
\* the log as cs: post_mcp runs up to its first await, entering sse_client.
Invoke(cs, step, base, head) ==
    /\ calls' = Append(cs, Call(step, base, head))
    /\ pc' = step
    /\ phase' = "connect"
    /\ err' = err

\* main goes on to `where` without calling post_mcp.
Goto(cs, where) ==
    /\ calls' = cs
    /\ pc' = where
    /\ phase' = "none"
    /\ err' = err

\* Abort with the exception swallowed: main goes on to build the report.
CarryOn(cs, why) ==
    /\ calls' = cs
    /\ pc' = "summarize"
    /\ phase' = "none"
    /\ err' = err

\* Abort with the Slack call's exception swallowed: main goes on to Notion.
PublishAnyway(cs, why) ==
    IF cs[Len(cs)].step = "post_slack"
    THEN Invoke(cs, "create_page", "", "")
    ELSE /\ calls' = cs
         /\ pc' = "aborted"
         /\ phase' = "none"
         /\ err' = why

\* Abort with a failed call made once more before main gives up.
RetryOnce(cs, why) ==
    IF /\ cs[Len(cs)].outcome \notin {"ok", "local_error"}
       /\ (Len(cs) = 1 \/ cs[Len(cs) - 1].step # cs[Len(cs)].step)
    THEN Invoke(cs, cs[Len(cs)].step, cs[Len(cs)].base, cs[Len(cs)].head)
    ELSE /\ calls' = cs
         /\ pc' = "aborted"
         /\ phase' = "none"
         /\ err' = why

\* An exception leaves main: asyncio.run re-raises it and the process ends.
Abort(cs, why) ==
    /\ calls' = cs
    /\ pc' = "aborted"
    /\ phase' = "none"
    /\ err' = why

\* Lines 190-191 and 83-96: main starts and calls list_commits for today.
MainStart ==
    /\ pc = "main"
    /\ Invoke(calls, "list_today", "", "")
    /\ UNCHANGED <<env, missing, sessions, locals, llm_calls, normalizer>>

\* ------------------------------------------------- post_mcp, lines 71-74
\* Line 71: sse_client connects (line 72, ClientSession, follows at once).
SseConnect ==
    /\ phase = "connect"
    /\ sessions' = EnterSession(sessions, calls[Len(calls)].url)
    /\ phase' = "initialize"
    /\ UNCHANGED <<env, pc, err, missing, calls, locals, llm_calls, normalizer>>

\* Line 71: the endpoint cannot be reached; nothing was opened.
SseConnectFails ==
    /\ phase = "connect"
    /\ Abort(Ended(calls, "connect_error"), "connect_error")
    /\ UNCHANGED <<env, missing, sessions, locals, llm_calls, normalizer>>

\* Lines 73-74: the handshake completes and call_tool sends its request.
Initialize ==
    /\ phase = "initialize"
    /\ sessions' = [sessions EXCEPT ![Len(sessions)].initialized = TRUE,
                                    ![Len(sessions)].requests = @ + 1]
    /\ phase' = "call_tool"
    /\ UNCHANGED <<env, pc, err, missing, calls, locals, llm_calls, normalizer>>

\* Line 73: the handshake fails; the exception leaves both `async with`.
InitializeFails ==
    /\ phase = "initialize"
    /\ sessions' = ExitSession(sessions)
    /\ Abort(Ended(calls, "handshake_error"), "handshake_error")
    /\ UNCHANGED <<env, missing, locals, llm_calls, normalizer>>

\* Line 74: call_tool raises, because the endpoint answered with an error
\* or because the transport broke; the exception leaves both `async with`.
CallToolFails ==
    /\ phase = "call_tool"
    /\ \E why \in {"remote_error", "transport_error"} :
          Abort(Ended(calls, why), why)
    /\ sessions' = ExitSession(sessions)
    /\ UNCHANGED <<env, missing, locals, llm_calls, normalizer>>

\* Lines 74-75 and 64: call_tool returns a response that unwrap_content
\* raises on; the exception leaves both `async with` and main.
UnwrapFails ==
    /\ phase = "call_tool"
    /\ RaisingPayloads # {}
    /\ Abort(Ended(calls, "local_error"), "local_error")
    /\ sessions' = ExitSession(sessions)
    /\ UNCHANGED <<env, missing, locals, llm_calls, normalizer>>

\* Lines 74-78: call_tool returns, post_mcp computes r and leaves both
\* `async with`; main goes on from `step` with r.
PostMcpReturns(step) ==
    /\ pc = step
    /\ phase = "call_tool"
    /\ sessions' = ExitSession(sessions)

\* ------------------------------------------------------------------ main
\* NoCommits with `commits is None` for `not commits`.
NoCommitsIsNone(listed) == FALSE

\* Lines 97 and 142: `not commits`, the listing is empty.
NoCommits(listed) == listed = <<>>

\* MainWindow with the two ends exchanged.
MainWindowOldestFirst(today) ==
    [base |-> ShaOf(today[1]), head |-> ShaOf(today[Len(today)])]

\* Lines 103-104: the window of a day with several commits.
MainWindow(today) ==
    [base |-> ShaOf(today[Len(today)]), head |-> ShaOf(today[1])]

\* FallbackWindow with yesterday's last element for its first.
FallbackWindowOldest(today, prev) ==
    [base |-> IF NoCommits(prev) THEN ShaOf(today[1])
                                 ELSE ShaOf(prev[Len(prev)]),
     head |-> ShaOf(today[1])]

\* FallbackWindow with no base when yesterday is empty.
FallbackWindowNoBase(today, prev) ==
    [base |-> IF NoCommits(prev) THEN "None" ELSE ShaOf(prev[1]),
     head |-> ShaOf(today[1])]

\* Lines 117-118: the window of a day with one commit, given yesterday's.
FallbackWindow(today, prev) ==
    [base |-> IF NoCommits(prev) THEN ShaOf(today[1]) ELSE ShaOf(prev[1]),
     head |-> ShaOf(today[1])]

\* BranchWindow with the two ends exchanged.
BranchWindowOldestFirst(branch_commits) ==
    [base |-> ShaOf(branch_commits[1]),
     head |-> ShaOf(branch_commits[Len(branch_commits)])]

\* Lines 143-144: the window of the branch.
BranchWindow(branch_commits) ==
    [base |-> ShaOf(branch_commits[Len(branch_commits)]),
     head |-> ShaOf(branch_commits[1])]

\* Resolved with a window of one commit (base = head) refused.
ResolvedApart(w) == w.base # NoSha /\ w.head # NoSha /\ w.base # w.head

\* Whether reading the two shas of a window raised nothing.
Resolved(w) == w.base # NoSha /\ w.head # NoSha

\* DiffText with the last element for the first.
DiffTextLast(res) == IF res # <<>> THEN res[Len(res)] ELSE Str("")

\* Lines 129 and 150: the diff text is the first element, or "".
DiffText(res) == IF res # <<>> THEN res[1] ELSE Str("")

\* NoBranchDiff with None for "".
NoBranchDiffNone == [k |-> "none", s |-> "", items |-> <<>>]

\* Line 152: the diff text of a branch without commits.
NoBranchDiff == Str("")

\* Every diff text a compare_commits call can leave main with.
DiffTexts == {DiffText(r) : r \in ToolResults}

\* Lines 155-160: the concatenation raises TypeError unless both are str.
PromptBuilds(overall, branch) == overall.k = "str" /\ branch.k = "str"

\* Lines 88-118: today's list_commits returns.
AfterListToday ==
    /\ PostMcpReturns("list_today")
    /\ \E r \in ToolResults :
          LET cs == Returned(calls, r) IN
          IF NoCommits(r)
          THEN /\ Goto(cs, "skipped")
               /\ UNCHANGED commits
          ELSE IF Len(r) > 1
               THEN /\ IF Resolved(MainWindow(r))
                       THEN Invoke(cs, "compare_main", MainWindow(r).base,
                                   MainWindow(r).head)
                       ELSE Abort(cs, "local_error")
                    /\ UNCHANGED commits
               ELSE /\ Invoke(cs, "list_prev", "", "")
                    /\ commits' = r
    /\ UNCHANGED <<env, missing, overall_diff, branch_diff, summary,
                   llm_calls, normalizer>>

\* Lines 108-128: yesterday's list_commits returns.
AfterListPrev ==
    /\ PostMcpReturns("list_prev")
    /\ \E r \in ToolResults :
          LET cs == Returned(calls, r)
              w == FallbackWindow(commits, r)
          IN  IF Resolved(w)
              THEN Invoke(cs, "compare_main", w.base, w.head)
              ELSE Abort(cs, "local_error")
    /\ commits' = <<>>
    /\ UNCHANGED <<env, missing, overall_diff, branch_diff, summary,
                   llm_calls, normalizer>>

\* AfterCompareMain with step 4 left for later: main summarizes at once.
AfterCompareMainSummarizes ==
    /\ PostMcpReturns("compare_main")
    /\ overall_diff' \in DiffTexts
    /\ Goto(Ended(calls, "ok"), "summarize")
    /\ UNCHANGED <<env, missing, commits, branch_diff, summary, llm_calls,
                   normalizer>>

\* Lines 121-141: the compare_commits call of the main window returns.
AfterCompareMain ==
    /\ PostMcpReturns("compare_main")
    /\ overall_diff' \in DiffTexts
    /\ Invoke(Ended(calls, "ok"), "list_branch", "", "")
    /\ UNCHANGED <<env, missing, commits, branch_diff, summary, llm_calls,
                   normalizer>>

\* Lines 133-152: the branch's list_commits returns.
AfterListBranch ==
    /\ PostMcpReturns("list_branch")
    /\ \E r \in ToolResults :
          LET cs == Returned(calls, r) IN
          IF NoCommits(r)
          THEN /\ branch_diff' = NoBranchDiff
               /\ Goto(cs, "summarize")
          ELSE /\ IF Resolved(BranchWindow(r))
                  THEN Invoke(cs, "compare_branch", BranchWindow(r).base,
                              BranchWindow(r).head)
                  ELSE Abort(cs, "local_error")
               /\ UNCHANGED branch_diff
    /\ UNCHANGED <<env, missing, commits, overall_diff, summary, llm_calls,
                   normalizer>>

\* Lines 145-150: the compare_commits call of the branch returns.
AfterCompareBranch ==
    /\ PostMcpReturns("compare_branch")
    /\ branch_diff' \in DiffTexts
    /\ Goto(Ended(calls, "ok"), "summarize")
    /\ UNCHANGED <<env, missing, commits, overall_diff, summary, llm_calls,
                   normalizer>>

\* Lines 155-165: build the prompt and call the summarization client.
Summarize ==
    /\ pc = "summarize"
    /\ IF PromptBuilds(overall_diff, branch_diff)
       THEN /\ llm_calls' = llm_calls + 1
            /\ Goto(calls, "llm")
       ELSE /\ Abort(calls, "local_error")
            /\ UNCHANGED llm_calls
    /\ UNCHANGED <<env, missing, sessions, locals, normalizer>>

\* LlmReturns with steps 6 and 7 exchanged: the Notion page comes first.
LlmReturnsPageFirst ==
    /\ pc = "llm"
    /\ \E c \in Completions : summary' = Strip(c)
    /\ Invoke(calls, "create_page", "", "")
    /\ UNCHANGED <<env, missing, sessions, commits, overall_diff,
                   branch_diff, llm_calls, normalizer>>

\* Lines 161-175: the completion arrives; main posts the report to Slack.
LlmReturns ==
    /\ pc = "llm"
    /\ \E c \in Completions : summary' = Strip(c)
    /\ Invoke(calls, "post_slack", "", "")
    /\ UNCHANGED <<env, missing, sessions, commits, overall_diff,
                   branch_diff, llm_calls, normalizer>>

\* Line 161: the summarization client raises.
LlmFails ==
    /\ pc = "llm"
    /\ Abort(calls, "llm_error")
    /\ UNCHANGED <<env, missing, sessions, locals, llm_calls, normalizer>>

\* Lines 171-186: the Slack call returns (its result is dropped); main
\* creates the Notion page.
AfterPostSlack ==
    /\ PostMcpReturns("post_slack")
    /\ Invoke(Ended(calls, "ok"), "create_page", "", "")
    /\ UNCHANGED <<env, missing, locals, llm_calls, normalizer>>

\* Lines 182-188: the Notion call returns (its result is dropped); main
\* returns.
AfterCreatePage ==
    /\ PostMcpReturns("create_page")
    /\ Goto(Ended(calls, "ok"), "done")
    /\ UNCHANGED <<env, missing, locals, llm_calls, normalizer>>

Next ==
    \/ LoadConfig
    \/ MainStart
    \/ SseConnect
    \/ SseConnectFails
    \/ Initialize
    \/ InitializeFails
    \/ CallToolFails
    \/ UnwrapFails
    \/ AfterListToday
    \/ AfterListPrev
    \/ AfterCompareMain
    \/ AfterListBranch
    \/ AfterCompareBranch
    \/ Summarize
    \/ LlmReturns
    \/ LlmFails
    \/ AfterPostSlack
    \/ AfterCreatePage

Spec == Init /\ [][Next]_vars

\* Lines 190-191: asyncio.run drives main until it returns or raises, and
\* every call main waits for returns or fails in the end.
FairSpec == Spec /\ WF_vars(Next)

\* ------------------------------------------- the normalizer on its own
\* Lines 74-78 for every result.content call_tool can return: the pipeline
\* stands still while post_mcp normalizes one response.
PipelineIdle ==
    /\ env = Settings
    /\ pc = "off"
    /\ phase = "none"
    /\ err = "none"
    /\ missing = {}
    /\ sessions = <<>>
    /\ calls = <<>>
    /\ commits = <<>>
    /\ overall_diff = Str("")
    /\ branch_diff = Str("")
    /\ llm_calls = 0
    /\ summary = ""

InitNorm ==
    /\ raw \in Payloads
    /\ content_items = <<>>
    /\ returned = <<>>
    /\ npc = "unwrap"
    /\ PipelineIdle

\* Line 75: content_items = unwrap_content(result.content).
UnwrapContent ==
    /\ npc = "unwrap"
    /\ ~Raises(raw)
    /\ content_items' = unwrap_content(raw)
    /\ npc' = "flatten"
    /\ UNCHANGED <<raw, returned, pipeline>>

\* Line 75: unwrap_content raises and the exception leaves post_mcp.
UnwrapContentFails ==
    /\ npc = "unwrap"
    /\ Raises(raw)
    /\ npc' = "raised"
    /\ UNCHANGED <<raw, content_items, returned, pipeline>>

\* Lines 76-78: post_mcp returns.
PostMcpReturn ==
    /\ npc = "flatten"
    /\ returned' = FlattenOne(content_items)
    /\ npc' = "returned"
    /\ UNCHANGED <<raw, content_items, pipeline>>

NextNorm ==
    \/ UnwrapContent
    \/ UnwrapContentFails
    \/ PostMcpReturn

SpecNorm == InitNorm /\ [][NextNorm]_vars

\* ------------------------------------- a compare response on its own
\* Lines 74-78 followed by line 129 or line 150, for every result.content
\* the compare_commits call can return.
\* Line 129: overall_diff = overall[0] if overall else "".
TakeOverallDiff ==
    /\ npc = "returned"
    /\ overall_diff' = DiffText(returned)
    /\ npc' = "overall_diff"
    /\ UNCHANGED <<env, pc, phase, err, missing, sessions, calls, commits,
                   branch_diff, llm_calls, summary, raw, content_items,
                   returned>>

\* Line 150: branch_diff = branch_res[0] if branch_res else "".
TakeBranchDiff ==
    /\ npc = "returned"
    /\ branch_diff' = DiffText(returned)
    /\ npc' = "branch_diff"
    /\ UNCHANGED <<env, pc, phase, err, missing, sessions, calls, commits,
                   overall_diff, llm_calls, summary, raw, content_items,
                   returned>>

NextDiff ==
    \/ UnwrapContent
    \/ UnwrapContentFails
    \/ PostMcpReturn
    \/ TakeOverallDiff
    \/ TakeBranchDiff

SpecDiff == InitNorm /\ [][NextDiff]_vars

\* ------------------------------------------------------------ properties
\* The ways a post_mcp call fails: lines 71, 73 and 74 raising.
CallFailures ==
    {"connect_error", "handshake_error", "remote_error", "transport_error"}

\* The positions in the log of the calls main made for `step`.
CallsOf(step) == {i \in 1..Len(calls) : calls[i].step = step}

\* C1: when today's list_commits returns zero commits, the run ends
\* successfully there: that call is the only tool call of the run, the
\* summarization client is not called, and nothing more can happen.
C1_NothingToReport ==
    (calls # <<>> /\ calls[1].count = 0) =>
        /\ pc = "skipped"
        /\ err = "none"
        /\ phase = "none"
        /\ Len(calls) = 1
        /\ llm_calls = 0
        /\ ~ENABLED Next

C1_Witness ==
    /\ calls # <<>>
    /\ calls[1].step = "list_today"
    /\ calls[1].outcome = "ok"
    /\ calls[1].count = 0
    /\ pc = "skipped"

\* C2: a session is open only while the call that opened it is between its
\* connect and its exit: once the call has returned a result or raised (a
\* failed handshake, a remote failure, a transport fault), every session
\* opened so far is released.
C2_SessionReleased ==
    \A i \in 1..Len(sessions) :
        sessions[i].state = "open" =>
            /\ i = Len(sessions)
            /\ phase \in {"initialize", "call_tool"}

C2_Witness ==
    /\ Len(sessions) = 2
    /\ calls[1].outcome = "ok"
    /\ calls[2].outcome = "handshake_error"
    /\ \A i \in 1..2 : sessions[i].state = "closed"

\* C3: when today's list_commits returns more than one commit, every
\* compare_commits call for the main window has base = the sha of the last
\* element and head = the sha of the first element of that response, and
\* no list_commits call for the previous day is made.
C3_WindowOfSeveral ==
    (calls # <<>> /\ calls[1].count > 1) =>
        /\ CallsOf("list_prev") = {}
        /\ \A i \in CallsOf("compare_main") :
              /\ calls[i].base = calls[1].oldest
              /\ calls[i].head = calls[1].newest

C3_Witness ==
    /\ Len(calls) >= 2
    /\ calls[1].count > 1
    /\ calls[1].newest = "b"
    /\ calls[1].oldest = "a"
    /\ calls[2].step = "compare_main"
    /\ calls[2].base = "a"
    /\ calls[2].head = "b"

\* C4: when today's list_commits returns exactly one commit and the
\* previous day's returns none, the main window is degenerate: the
\* compare_commits call is made with base = head = the sha of today's
\* single commit.
C4_DegenerateWindow ==
    (/\ Len(calls) >= 2
     /\ calls[1].count = 1
     /\ calls[2].step = "list_prev"
     /\ calls[2].count = 0) =>
        /\ calls[1].newest # NoSha =>
              Len(calls) >= 3 /\ calls[3].step = "compare_main"
        /\ \A i \in CallsOf("compare_main") :
              /\ calls[i].base = calls[1].newest
              /\ calls[i].head = calls[1].newest

C4_Witness ==
    /\ Len(calls) >= 3
    /\ calls[1].count = 1
    /\ calls[1].newest = "a"
    /\ calls[2].step = "list_prev"
    /\ calls[2].count = 0
    /\ calls[3].step = "compare_main"
    /\ calls[3].base = "a"
    /\ calls[3].head = "a"

\* C5: when today's list_commits returns exactly one commit, exactly one
\* list_commits call for the previous day is made, and if it returns any
\* commits every compare_commits call for the main window has base = the
\* sha of the first element of that response and head = the sha of today's
\* single commit.
C5_FallbackWindow ==
    (calls # <<>> /\ calls[1].count = 1) =>
        /\ CallsOf("list_prev") = {2}
        /\ calls[2].count > 0 =>
              \A i \in CallsOf("compare_main") :
                  /\ calls[i].base = calls[2].newest
                  /\ calls[i].head = calls[1].newest

C5_Witness ==
    /\ Len(calls) >= 3
    /\ calls[1].count = 1
    /\ calls[1].newest = "a"
    /\ calls[2].step = "list_prev"
    /\ calls[2].count > 1
    /\ calls[2].newest = "b"
    /\ calls[2].oldest = "a"
    /\ calls[3].step = "compare_main"
    /\ calls[3].base = "b"
    /\ calls[3].head = "a"

\* C6: post_mcp returns, for a response of exactly one content item whose
\* value is a list, that list itself; for every other response (no item,
\* several items, one item whose value is no list) the values of the
\* items, one per item and in order.
C6_FlattenOneLevel ==
    npc = "returned" =>
        IF Len(raw) = 1 /\ UnwrapItem(raw[1]).k = "list"
        THEN returned = UnwrapItem(raw[1]).items
        ELSE /\ Len(returned) = Len(raw)
             /\ \A i \in 1..Len(raw) : returned[i] = UnwrapItem(raw[i])

C6_Witness ==
    /\ npc = "returned"
    /\ Len(raw) = 1
    /\ raw[1].type = "text"
    /\ content_items = <<List(<<Dict("b"), Dict("a")>>)>>
    /\ returned = <<Dict("b"), Dict("a")>>

\* The run has ended: main returned or the process exited.
RunEnded == pc \in {"done", "skipped", "aborted"}

\* C7: a run that has ended, in which today's list_commits returned at
\* least one commit and neither a tool call nor the summarization call
\* failed, has ended successfully with exactly one call of the
\* summarization client, one of slack_post_message and one of create-page.
C7_ReportOnce ==
    (/\ RunEnded
     /\ calls # <<>>
     /\ calls[1].count > 0
     /\ \A i \in 1..Len(calls) : calls[i].outcome \notin CallFailures
     /\ err # "llm_error") =>
        /\ pc = "done"
        /\ llm_calls = 1
        /\ Cardinality(CallsOf("post_slack")) = 1
        /\ Cardinality(CallsOf("create_page")) = 1

\* The run C7 does not cover: every call returned, every commit read had
\* its sha, the branch had no commits, and the diff of the main window is
\* a JSON object, which line 158 cannot concatenate.
C7_Witness ==
    /\ pc = "aborted"
    /\ err = "local_error"
    /\ Len(calls) = 3
    /\ calls[1].count > 1
    /\ calls[2].step = "compare_main"
    /\ calls[3].step = "list_branch"
    /\ calls[3].count = 0
    /\ \A i \in 1..3 : calls[i].outcome = "ok"
    /\ overall_diff = Dict("a")
    /\ branch_diff = Str("")
    /\ llm_calls = 0

\* The steps of main that resolve the windows and fetch the diffs.
GithubSteps ==
    {"list_today", "list_prev", "compare_main", "list_branch",
     "compare_branch"}

\* C8: once a list_commits or compare_commits call has failed (connect,
\* handshake, remote or transport error), the run is over: that call is the
\* last tool call of the run (none later, no retry), the summarization
\* client is never called, and neither publish call is made.
C8_FailureAborts ==
    \A i \in 1..Len(calls) :
        (calls[i].step \in GithubSteps /\ calls[i].outcome \in CallFailures) =>
            /\ i = Len(calls)
            /\ pc = "aborted"
            /\ phase = "none"
            /\ err = calls[i].outcome
            /\ llm_calls = 0
            /\ CallsOf("post_slack") = {}
            /\ CallsOf("create_page") = {}
            /\ ~ENABLED Next

C8_Witness ==
    /\ pc = "aborted"
    /\ Len(calls) = 4
    /\ calls[4].step = "compare_branch"
    /\ calls[4].outcome = "remote_error"
    /\ \A i \in 1..3 : calls[i].outcome = "ok"
    /\ llm_calls = 0

\* C9: once the slack_post_message call has failed, the run is over and
\* the create-page call is never made.
C9_NoPageAfterSlackFailure ==
    \A i \in CallsOf("post_slack") :
        calls[i].outcome \in CallFailures =>
            /\ CallsOf("create_page") = {}
            /\ i = Len(calls)
            /\ pc = "aborted"
            /\ ~ENABLED Next

C9_Witness ==
    /\ pc = "aborted"
    /\ llm_calls = 1
    /\ calls[Len(calls)].step = "post_slack"
    /\ calls[Len(calls)].outcome = "transport_error"
    /\ CallsOf("create_page") = {}

C11_BranchWindow ==
    \A i \in CallsOf("list_branch") :
        calls[i].count > 0 =>
            /\ \A j \in CallsOf("compare_branch") :
                  /\ calls[j].base = calls[i].oldest
                  /\ calls[j].head = calls[i].newest
            /\ \A j \in 1..Len(calls) :
                  j > i => calls[j].tool # "list_commits"
            /\ i < Len(calls) => calls[i + 1].step = "compare_branch"
            /\ (calls[i].newest # NoSha /\ calls[i].oldest # NoSha) =>
                  i < Len(calls)

C11_Witness ==
    \E i \in CallsOf("list_branch") :
        /\ calls[i].count = 1
        /\ calls[i].newest = "a"
        /\ i < Len(calls)
        /\ calls[i + 1].step = "compare_branch"
        /\ calls[i + 1].base = "a"
        /\ calls[i + 1].head = "a"
        /\ CallsOf("list_prev") = {}

\* The calls that got as far as opening a session: line 71 did not raise.
Connected ==
    {i \in 1..Len(calls) :
        /\ calls[i].outcome # "connect_error"
        /\ ~(i = Len(calls) /\ phase = "connect")}

\* C12: every tool call that connects opens a session of its own, to its
\* own endpoint, and closes it: at most one session is open at any time,
\* at most one tool request is sent on any session (exactly one on the
\* session of a call that returned), and no session is open between two
\* calls or while the summarization client is at work.
C12_OneSessionPerCall ==
    /\ Cardinality({i \in 1..Len(sessions) : sessions[i].state = "open"}) <= 1
    /\ Len(sessions) = Cardinality(Connected)
    /\ \A i \in 1..Len(sessions) :
          /\ i \in Connected
          /\ sessions[i].url = calls[i].url
          /\ sessions[i].requests <= 1
          /\ calls[i].outcome = "ok" =>
                /\ sessions[i].requests = 1
                /\ sessions[i].initialized
                /\ sessions[i].state = "closed"
    /\ phase \in {"none", "connect"} =>
          \A i \in 1..Len(sessions) : sessions[i].state = "closed"
    /\ pc \in {"summarize", "llm"} => phase = "none"

C12_Witness ==
    /\ pc = "llm"
    /\ Len(sessions) = 4
    /\ Len(calls) = 4
    /\ \A i \in 1..4 :
          /\ sessions[i].state = "closed"
          /\ sessions[i].requests = 1

\* C13: when one of the eight settings is absent (unset or empty), the
\* process gets no further than the validation: it exits there, and no
\* session is opened, no tool call is made and the summarization client is
\* never called.
C13_ValidatedFirst ==
    env # Settings =>
        /\ pc \in {"load", "aborted"}
        /\ pc = "aborted" => err = "config" /\ ~ENABLED Next
        /\ pc = "load" => ENABLED LoadConfig
        /\ sessions = <<>>
        /\ calls = <<>>
        /\ llm_calls = 0

C13_Witness ==
    /\ env = Settings \ {"NOTION_DB_ID"}
    /\ pc = "aborted"
    /\ err = "config"
    /\ calls = <<>>

\* The process has exited in the validation of the settings.
ConfigAbort == pc = "aborted" /\ err = "config"

\* C14 as stated: the settings named by the abort message are exactly the
\* absent ones, for every set of absent settings.
C14_NamesAllAbsent ==
    ConfigAbort => missing = Settings \ env

\* C14: the abort message names exactly the absent settings when
\* OPENAI_API_KEY is present; when OPENAI_API_KEY is absent it names
\* OPENAI_API_KEY alone, whatever else is absent.  Every incomplete set of
\* settings ends in such an abort.
C14_NamesAbsentKeyFirst ==
    /\ ConfigAbort =>
          missing = IF "OPENAI_API_KEY" \in env
                    THEN Settings \ env
                    ELSE {"OPENAI_API_KEY"}
    /\ (env # Settings /\ pc # "load") => ConfigAbort
    /\ env = Settings => missing = {}

C14_Witness ==
    /\ ConfigAbort
    /\ env = Settings \ {"OPENAI_API_KEY", "GH_REPO", "SLACK_MCP_URL"}
    /\ missing = {"OPENAI_API_KEY"}

\* C15 as stated: compare_commits is called for the main window only when
\* base differs from head, and for the branch only when the branch's
\* list_commits returned commits.
C15_CompareOnlyIfApart ==
    /\ \A i \in CallsOf("compare_main") : calls[i].base # calls[i].head
    /\ \A j \in CallsOf("compare_branch") :
          calls[j - 1].step = "list_branch" /\ calls[j - 1].count > 0

\* C15: compare_commits is called for the main window whenever that window
\* is resolved, the degenerate window (base = head) included: the call
\* follows today's list_commits of several commits, or the previous day's
\* list_commits, as soon as the shas are read.  For the branch it is called
\* only when the branch's list_commits returned commits.
C15_CompareWhenResolved ==
    /\ \A i \in CallsOf("compare_main") :
          /\ calls[i].base # NoSha
          /\ calls[i].head # NoSha
          /\ calls[i - 1].step \in {"list_today", "list_prev"}
    /\ (/\ calls # <<>>
        /\ calls[1].count > 1
        /\ calls[1].newest # NoSha
        /\ calls[1].oldest # NoSha) =>
          Len(calls) >= 2 /\ calls[2].step = "compare_main"
    /\ (/\ Len(calls) >= 2
        /\ calls[2].step = "list_prev"
        /\ calls[2].outcome = "ok"
        /\ calls[1].newest # NoSha
        /\ calls[2].count > 0 => calls[2].newest # NoSha) =>
          Len(calls) >= 3 /\ calls[3].step = "compare_main"
    /\ \A j \in CallsOf("compare_branch") :
          calls[j - 1].step = "list_branch" /\ calls[j - 1].count > 0

C15_Witness ==
    /\ pc = "done"
    /\ calls[1].count = 1
    /\ calls[2].step = "list_prev"
    /\ calls[2].count = 0
    /\ calls[3].step = "compare_main"
    /\ calls[3].outcome = "ok"
    /\ calls[3].base = calls[3].head
    /\ calls[4].step = "list_branch"
    /\ calls[4].count = 0
    /\ CallsOf("compare_branch") = {}

\* The first value of a response once the flatten-one-level rule has been
\* applied, or "" when nothing is left: for a single item whose value is a
\* list, the first element of that list; otherwise the value of the first
\* content item.
FirstOfResponse(content) ==
    IF content = <<>>
    THEN Str("")
    ELSE LET first == UnwrapItem(content[1])
         IN  IF Len(content) = 1 /\ first.k = "list"
             THEN IF first.items = <<>> THEN Str("") ELSE first.items[1]
             ELSE first

\* C16: for the main and for the branch compare call alike, the diff text
\* is the first value of the response after the flatten-one-level rule has
\* been applied (the value of the first content item, or the first element
\* of the list when the response is one item whose value is a list), and
\* the empty string when that leaves nothing.
C16_DiffIsFirst ==
    /\ npc = "overall_diff" => overall_diff = FirstOfResponse(raw)
    /\ npc = "branch_diff" => branch_diff = FirstOfResponse(raw)

C16_Witness ==
    /\ npc = "overall_diff"
    /\ raw = <<JsonTextContent(List(<<Str("d"), Dict("a")>>))>>
    /\ returned = <<Str("d"), Dict("a")>>
    /\ overall_diff = Str("d")

\* The place of each step of main in the order main window, main diff,
\* branch window, branch diff, summarize, chat publish, document publish.
StepOrder ==
    <<"list_today", "list_prev", "compare_main", "list_branch",
      "compare_branch", "summarize", "post_slack", "create_page">>
Rank(step) == CHOOSE n \in 1..Len(StepOrder) : StepOrder[n] = step

\* Whether a call for `step` is in the log and has returned.
HasReturned(step) == \E i \in CallsOf(step) : calls[i].outcome = "ok"

\* C17: the calls are made in the order main window, main diff, branch
\* window, branch diff, chat publish, document publish, each only after the
\* one before it has returned; a compare_commits call comes right after
\* the list_commits call(s) of its window; the summarization client is
\* called only after the main diff and the branch diff are determined; a
\* publish call is made only after the summarization has returned.
C17_StepOrder ==
    /\ \A i \in 1..(Len(calls) - 1) :
          /\ calls[i].outcome = "ok"
          /\ Rank(calls[i].step) < Rank(calls[i + 1].step)
    /\ calls # <<>> => calls[1].step = "list_today"
    /\ \A i \in CallsOf("compare_main") :
          \/ calls[i - 1].step = "list_today" /\ calls[i - 1].count > 1
          \/ /\ calls[i - 1].step = "list_prev"
             /\ calls[i - 1].count >= 0
             /\ calls[i - 2].step = "list_today"
             /\ calls[i - 2].count = 1
    /\ \A i \in CallsOf("compare_branch") :
          /\ calls[i - 1].step = "list_branch"
          /\ calls[i - 1].count > 0
    /\ (llm_calls > 0 \/ pc \in {"summarize", "llm"}) =>
          /\ HasReturned("compare_main")
          /\ HasReturned("list_branch")
          /\ \/ HasReturned("compare_branch")
             \/ \E j \in CallsOf("list_branch") : calls[j].count = 0
    /\ pc \in {"summarize", "llm"} =>
          CallsOf("post_slack") = {} /\ CallsOf("create_page") = {}
    /\ \A i \in CallsOf("post_slack") :
          /\ llm_calls = 1
          /\ summary # ""
          /\ Rank(calls[i - 1].step) < Rank("summarize")
    /\ \A i \in CallsOf("create_page") :
          calls[i - 1].step = "post_slack"

C17_Witness ==
    /\ pc = "done"
    /\ Len(calls) = 7
    /\ \A i \in 1..7 :
          /\ calls[i].outcome = "ok"
          /\ calls[i].step =
                <<"list_today", "list_prev", "compare_main", "list_branch",
                  "compare_branch", "post_slack", "create_page">>[i]
    /\ llm_calls = 1

\* The value C18 gives a content item.
ValueOf(item) ==
    CASE item.type = "text" /\ item.text.json -> item.text.of
      [] item.type = "text" /\ ~item.text.json -> Str(item.text.chars)
      [] item.type = "resource" -> item.body
      [] OTHER -> Dict(NoSha)

\* C18: unwrap_content never raises, and what it returns has one value per
\* content item, in order: the parsed value of a text that is JSON, the
\* text itself of a text that is not, the body of an embedded resource,
\* and the mapping of the fields of any other item.
C18_ElementWiseNeverFails ==
    /\ npc # "raised"
    /\ npc \in {"flatten", "returned"} =>
          /\ Len(content_items) = Len(raw)
          /\ \A i \in 1..Len(raw) : content_items[i] = ValueOf(raw[i])

\* unwrap_content raises on a response whose second item is an embedded
\* resource without the attribute line 64 reads.
C18_Witness ==
    /\ npc = "raised"
    /\ raw = <<JsonTextContent(Dict("a")), BareEmbeddedResource>>
    /\ content_items = <<>>
    /\ returned = <<>>

\* C19: in every state, a create-page call is in the log only if the
\* slack_post_message call before it has returned; so a run that created
\* the page has posted the message, while a run can end with the message
\* posted and the page not created.
C19_PageOnlyAfterSlack ==
    /\ \A i \in CallsOf("create_page") :
          /\ calls[i - 1].step = "post_slack"
          /\ calls[i - 1].outcome = "ok"
    /\ HasReturned("create_page") => HasReturned("post_slack")
    /\ pc = "done" => HasReturned("post_slack") /\ HasReturned("create_page")

C19_Witness ==
    /\ pc = "aborted"
    /\ HasReturned("post_slack")
    /\ calls[Len(calls)].step = "create_page"
    /\ calls[Len(calls)].outcome = "remote_error"

\* The calls in the log that went to `tool`.
CallsTo(tool) == {i \in 1..Len(calls) : calls[i].tool = tool}

\* The numbers of calls C20 allows.
CallBudget ==
    /\ Len(calls) <= 7
    /\ Cardinality(CallsTo("list_commits")) <= 3
    /\ Cardinality(CallsTo("compare_commits")) <= 2
    /\ Cardinality(CallsTo("slack_post_message")) <= 1
    /\ Cardinality(CallsTo("create-page")) <= 1
    /\ Cardinality(CallsOf("list_today")) <= 1
    /\ Cardinality(CallsOf("list_prev")) <= 1
    /\ Cardinality(CallsOf("list_branch")) <= 1
    /\ (calls # <<>> /\ calls[1].outcome # "pending") =>
          (CallsOf("list_prev") # {} <=> calls[1].count = 1)
    /\ calls # <<>> /\ calls[1].outcome = "pending" =>
          CallsOf("list_prev") = {}

\* C20: when every call that is waited for returns or fails in the end,
\* every run ends (done, nothing to report, or aborted), and at no time has
\* it made more than 7 tool calls: at most 3 list_commits (one each for
\* today, the previous day and the branch), 2 compare_commits and 1 call
\* of each publish tool; the previous day's list_commits is called exactly
\* when today's returned exactly one commit.
C20_EndsWithinBudget == []CallBudget /\ <>RunEnded

C20_Witness ==
    /\ pc = "done"
    /\ Cardinality(CallsTo("list_commits")) = 3
    /\ Cardinality(CallsTo("compare_commits")) = 2
    /\ Cardinality(CallsTo("slack_post_message")) = 1
    /\ Cardinality(CallsTo("create-page")) = 1

====
